---- MODULE Spec2Model ----
(***************************************************************************)
(* Study tracker: the Revision Scheduler of src/pages/ProgressTracker.jsx  *)
(* and the Log-to-Syllabus Mapper of src/pages/Analytics.jsx.              *)
(*                                                                         *)
(* JavaScript objects are records whose DOMAIN is the set of properties    *)
(* the object has: an absent property is a field outside the DOMAIN.       *)
(* Arrays are sequences.  A timestamp is a number of ticks; a day has      *)
(* TicksPerDay ticks.                                                      *)
(***************************************************************************)
EXTENDS Integers, Sequences, FiniteSets, TLC

VARIABLES
    store,          \* the SyllabusCollection document held by the external store
    syllabusData,   \* ProgressTracker state: the last pushed snapshot
    localStored,    \* localStorage item 'activeSyllabusId' (the last-used id)
    now,            \* the clock, in ticks
    filterMode,     \* ProgressTracker state: 'all' | 'urgent' | 'active'
    processedData,  \* the memoised view { allTopics, grouped, stats }
    viewNow,        \* the clock value the memoised view was computed at
    pendingDelete,  \* the delete awaiting confirmation, with the snapshot its closure holds
    hist,           \* the save calls made so far, in order
    toast,          \* the last notification shown
    logs,           \* Analytics state: the study logs last pushed
    timeRange,      \* Analytics state: '7d' | '30d' | '90d' | 'year' | 'all'
    anSyllabusData, \* Analytics state: the syllabus collection last pushed
    anLocalStored,  \* localStorage item 'active_syllabus'
    filteredLogs,   \* the memoised time-window filter of logs
    quizResults     \* Analytics state: the quiz results last pushed

schedVars == <<store, syllabusData, localStored, now, filterMode, processedData,
               viewNow, pendingDelete, hist, toast>>

anVars == <<logs, timeRange, anSyllabusData, anLocalStored, filteredLogs, quizResults>>

vars == <<schedVars, anVars>>

----------------------------------------------------------------------------
(* Bounds of the model *)

TicksPerDay == 2
MaxTicks == 2
MaxOps == 1
MaxPairOps == 2

(* Program constants *)

DefaultInterval == 7

NULL == "null"
NoDate == -1
NullData == [isNull |-> TRUE]
NoPending == [isNull |-> TRUE]

StartNow == 7 * TicksPerDay
MaxNow == StartNow + MaxTicks

----------------------------------------------------------------------------
(* The revision scheduler's pure part: flattenTopics and the view *)

Get(obj, field, undef) == IF field \in DOMAIN obj THEN obj[field] ELSE undef

\* date-fns differenceInDays: the number of full days between two instants,
\* truncated toward zero
differenceInDays(later, earlier) ==
    IF later >= earlier
    THEN (later - earlier) \div TicksPerDay
    ELSE 0 - ((earlier - later) \div TicksPerDay)

DefaultStats ==
    [totalMinutes |-> 0, lastStudied |-> NoDate,
     revisionInterval |-> DefaultInterval, needsRevision |-> FALSE]

\* item.stats || { ...defaults }
StatsOf(item) == IF "stats" \in DOMAIN item THEN item.stats ELSE DefaultStats

\* stats.revisionInterval || 7
IntervalOf(stats) ==
    LET r == Get(stats, "revisionInterval", 0)
    IN IF r = 0 THEN DefaultInterval ELSE r

DaysSince(stats, t) ==
    IF Get(stats, "lastStudied", NoDate) # NoDate
    THEN differenceInDays(t, stats.lastStudied)
    ELSE 0

\* A mutation of the due rule: the interval compared with > instead of >=
NeedsRevisionStrict(stats, t) ==
    IF Get(stats, "lastStudied", NoDate) # NoDate /\ DaysSince(stats, t) > IntervalOf(stats)
    THEN TRUE
    ELSE Get(stats, "needsRevision", FALSE)

\* lines 59-66; an absent flag (undefined) is falsy wherever the view reads it
NeedsRevision(stats, t) ==
    IF Get(stats, "lastStudied", NoDate) # NoDate /\ DaysSince(stats, t) >= IntervalOf(stats)
    THEN TRUE
    ELSE Get(stats, "needsRevision", FALSE)

\* lines 68-72: { ...item, parentSubject, stats: { ...stats, daysSince, needsRevision } }
ComputeTopic(item, parentSubject, t) ==
    LET stats == StatsOf(item)
    IN ("parentSubject" :> (IF parentSubject = NULL THEN "General" ELSE parentSubject))
       @@ ("stats" :> (("daysSince" :> DaysSince(stats, t))
                       @@ ("needsRevision" :> NeedsRevision(stats, t))
                       @@ stats))
       @@ item

HasChildren(item) == "children" \in DOMAIN item /\ Len(item.children) > 0

\* A mutation of the traversal: the children are tagged with the title the
\* traversal came with, the first ancestor's and not the parent's
RECURSIVE flattenTopicsTopTitle(_, _, _)
flattenTopicsTopTitle(items, parentSubject, t) ==
    IF items = <<>> THEN <<>>
    ELSE LET item == Head(items)
             here == IF HasChildren(item)
                     THEN flattenTopicsTopTitle(item.children,
                              IF parentSubject = NULL THEN item.title ELSE parentSubject, t)
                     ELSE <<ComputeTopic(item, parentSubject, t)>>
         IN here \o flattenTopicsTopTitle(Tail(items), parentSubject, t)

\* lines 46-76
RECURSIVE flattenTopics(_, _, _)
flattenTopics(items, parentSubject, t) ==
    IF items = <<>> THEN <<>>
    ELSE LET item == Head(items)
             here == IF HasChildren(item)
                     THEN flattenTopics(item.children, item.title, t)
                     ELSE <<ComputeTopic(item, parentSubject, t)>>
         IN here \o flattenTopics(Tail(items), parentSubject, t)

FirstKey(data) == IF data.keys = <<>> THEN NULL ELSE data.keys[1]

\* lines 29-41: the key of the syllabus the scheduler shows, NULL when
\* activeSyllabus is null
ActiveSyllabusKey(data, stored) ==
    IF data = NullData THEN NULL
    ELSE LET a0 == data.activeSyllabusId
             a1 == IF a0 = NULL /\ stored # NULL /\ stored \in DOMAIN data.syllabi
                   THEN stored ELSE a0
             a2 == IF a1 = NULL THEN FirstKey(data) ELSE a1
         IN IF a2 \in DOMAIN data.syllabi THEN a2 ELSE NULL

ActiveItems(data, stored) ==
    IF ActiveSyllabusKey(data, stored) = NULL THEN <<>>
    ELSE data.syllabi[ActiveSyllabusKey(data, stored)].items

IsUrgent(topic) == topic.stats.needsRevision
\* undefined > 0 is false
IsActive(topic) ==
    Get(topic.stats, "totalMinutes", 0) > 0 /\ ~topic.stats.needsRevision

\* lines 91-92; undefined === 0 is false
PassesFilter(topic, mode) ==
    /\ ~(mode = "urgent" /\ ~topic.stats.needsRevision)
    /\ ~(mode = "active" /\ (Get(topic.stats, "totalMinutes", -1) = 0
                             \/ topic.stats.needsRevision))

\* lines 43-106, with searchTerm = ''
ComputeView(data, stored, mode, t) ==
    LET allTopics == flattenTopics(ActiveItems(data, stored), NULL, t)
        Pass(topic) == PassesFilter(topic, mode)
        passing == SelectSeq(allTopics, Pass)
        subjects == {passing[i].parentSubject : i \in 1..Len(passing)}
    IN [allTopics |-> allTopics,
        grouped |-> [s \in subjects |->
                        SelectSeq(passing, LAMBDA topic : topic.parentSubject = s)],
        stats |-> [total |-> Len(allTopics),
                   urgent |-> Len(SelectSeq(allTopics, IsUrgent)),
                   active |-> Len(SelectSeq(allTopics, IsActive))]]

----------------------------------------------------------------------------
(* The mutations *)

\* JSON.parse(JSON.stringify(data)): every value of a collection is a string,
\* a number, a boolean, null, an array or a plain object, which the round trip
\* rebuilds property by property
RECURSIVE JsonCloneList(_)
JsonCloneList(list) ==
    [i \in 1..Len(list) |->
        LET item == list[i]
        IN IF "children" \in DOMAIN item
           THEN [item EXCEPT !.children = JsonCloneList(@)]
           ELSE item]

JsonClone(data) ==
    [activeSyllabusId |-> data.activeSyllabusId,
     keys |-> data.keys,
     syllabi |-> [k \in DOMAIN data.syllabi |->
                    [items |-> JsonCloneList(data.syllabi[k].items),
                     completed |-> data.syllabi[k].completed]]]

\* lines 112, 139, 176: newSyllabusData.activeSyllabusId || Object.keys(syllabi)[0]
MutationKey(data) ==
    IF data.activeSyllabusId # NULL THEN data.activeSyllabusId ELSE FirstKey(data)

\* parseInt of a <select> option value (lines 484-488)
parseInt(s) ==
    CASE s = "1" -> 1 [] s = "3" -> 3 [] s = "7" -> 7 [] s = "14" -> 14 [] s = "30" -> 30

\* if (!item.stats) item.stats = {}; item.stats[field] = value
SetStat(item, field, value) ==
    ("stats" :> (IF "stats" \in DOMAIN item
                 THEN (field :> value) @@ item.stats
                 ELSE (field :> value)))
    @@ item

RECURSIVE updateRecursiveInterval(_, _, _)
updateRecursiveInterval(list, topicId, days) ==
    [i \in 1..Len(list) |->
        LET item == list[i]
        IN IF item.id = topicId
           THEN SetStat(item, "revisionInterval", days)
           ELSE IF "children" \in DOMAIN item
                THEN [item EXCEPT !.children = updateRecursiveInterval(@, topicId, days)]
                ELSE item]

RECURSIVE updateRecursiveRevised(_, _, _)
updateRecursiveRevised(list, topicId, t) ==
    [i \in 1..Len(list) |->
        LET item == list[i]
        IN IF item.id = topicId
           THEN SetStat(SetStat(item, "lastStudied", t), "needsRevision", FALSE)
           ELSE IF "children" \in DOMAIN item
                THEN [item EXCEPT !.children = updateRecursiveRevised(@, topicId, t)]
                ELSE item]

RECURSIVE removeRecursive(_, _)
removeRecursive(list, topicId) ==
    IF list = <<>> THEN <<>>
    ELSE LET item == Head(list)
             rest == removeRecursive(Tail(list), topicId)
         IN IF item.id = topicId THEN rest
            ELSE <<IF "children" \in DOMAIN item
                   THEN [item EXCEPT !.children = removeRecursive(@, topicId)]
                   ELSE item>> \o rest

\* The collection each handler hands to saveUserSyllabus
WrittenInterval(data, topicId, newInterval) ==
    LET copy == JsonClone(data)
        k == MutationKey(copy)
    IN [copy EXCEPT !.syllabi[k].items =
            updateRecursiveInterval(@, topicId, parseInt(newInterval))]

WrittenRevised(data, topicId, t) ==
    LET copy == JsonClone(data)
        k == MutationKey(copy)
    IN [copy EXCEPT !.syllabi[k].items = updateRecursiveRevised(@, topicId, t)]

WrittenDelete(data, topicId) ==
    LET copy == JsonClone(data)
        k == MutationKey(copy)
    IN [copy EXCEPT !.syllabi[k].items = removeRecursive(@, topicId)]

\* A mutation of the handlers: the tree mutated in place, without the deep copy
InMemoryAfterShared(read, written) == written

\* The handlers work on the deep copy and never call setSyllabusData, so the
\* state object is left as it was
InMemoryAfter(read, written) == read

----------------------------------------------------------------------------
(* The data the model runs on *)

SyllabusKeys == <<"s1", "s2">>
TopicIds == {"U1", "T1", "T2", "T3", "T9"}
IntervalOptions == {"1", "14"}

\* T1: studied one tick short of its stored interval of 3 days.
\* T2: never studied, no stats object.
\* T4: studied one tick short of 7 days, no interval stored.
Syllabus1 ==
    [items |-> << [id |-> "P1", title |-> "History", children |->
                    << [id |-> "U1", title |-> "Ancient", children |->
                          << [id |-> "T1", title |-> "Vedic", children |-> <<>>,
                              stats |-> [totalMinutes |-> 30,
                                         lastStudied |-> StartNow - (3 * TicksPerDay - 1),
                                         revisionInterval |-> 3,
                                         needsRevision |-> FALSE]] >>],
                       [id |-> "T2", title |-> "Medieval"],
                       [id |-> "T4", title |-> "Modern", children |-> <<>>,
                        stats |-> [totalMinutes |-> 30,
                                   lastStudied |-> StartNow - (DefaultInterval * TicksPerDay - 1),
                                   needsRevision |-> FALSE]] >>] >>,
     completed |-> <<"T1">>]

\* T3: never studied, flagged for revision.
Syllabus2 ==
    [items |-> << [id |-> "P2", title |-> "Polity", children |->
                    << [id |-> "T3", title |-> "Preamble", children |-> <<>>,
                        stats |-> [totalMinutes |-> 45, lastStudied |-> NoDate,
                                   revisionInterval |-> 7, needsRevision |-> TRUE]] >>] >>,
     completed |-> <<>>]

Collection(activeId) ==
    [activeSyllabusId |-> activeId,
     keys |-> SyllabusKeys,
     syllabi |-> [k \in {"s1", "s2"} |->
                    IF k = "s1" THEN Syllabus1 ELSE Syllabus2]]

----------------------------------------------------------------------------
(* The scheduler as a state machine *)

\* The Analytics page is not mounted
AnalyticsIdle ==
    /\ logs = <<>>
    /\ timeRange = "30d"
    /\ anSyllabusData = NullData
    /\ anLocalStored = NULL
    /\ filteredLogs = <<>>
    /\ quizResults = <<>>

\* The stored activeSyllabusId and the last-used id a session may start with:
\* both unset, only the last-used id set, the stored id set, the stored id
\* naming no syllabus
InitIds == { <<NULL, NULL>>, <<NULL, "s2">>, <<"s2", NULL>>, <<"s9", "s2">> }

InitSchedulerWith(activeSyllabusId0, localStored0) ==
    /\ store = Collection(activeSyllabusId0)
    /\ syllabusData = NullData
    /\ localStored = localStored0
    /\ now = StartNow
    /\ filterMode = "all"
    /\ processedData = ComputeView(NullData, NULL, "all", StartNow)
    /\ viewNow = StartNow
    /\ pendingDelete = NoPending
    /\ hist = <<>>
    /\ toast = "none"

InitScheduler ==
    /\ \E ids \in InitIds : InitSchedulerWith(ids[1], ids[2])
    /\ AnalyticsIdle

\* lines 20-27: the subscription delivers the store's document; the component
\* re-renders and both memos are recomputed
Push ==
    /\ syllabusData # store
    /\ syllabusData' = store
    /\ processedData' = ComputeView(store, localStored, filterMode, now)
    /\ viewNow' = now
    /\ UNCHANGED <<store, localStored, now, filterMode, pendingDelete, hist, toast>>
    /\ UNCHANGED anVars

Tick ==
    /\ now < MaxNow
    /\ now' = now + 1
    /\ UNCHANGED <<store, syllabusData, localStored, filterMode, processedData,
                   viewNow, pendingDelete, hist, toast>>
    /\ UNCHANGED anVars

\* The mutations started so far: the saves made and the delete awaiting its dialog
OpsStarted == Len(hist) + (IF pendingDelete = NoPending THEN 0 ELSE 1)

\* lines 109, 137, 174
CanMutate(data) == data # NullData /\ ActiveSyllabusKey(data, localStored) # NULL

\* await saveUserSyllabus(user.uid, newSyllabusData), then the toast
Save(op, topicId, arg, read, written, success, okText, failText) ==
    /\ store' = IF success THEN written ELSE store
    /\ toast' = IF success THEN okText ELSE failText
    /\ hist' = Append(hist, [op |-> op, topicId |-> topicId, arg |-> arg, read |-> read,
                             written |-> written, ok |-> success])
    /\ syllabusData' = InMemoryAfter(syllabusData, written)

handleUpdateInterval(topicId, newInterval, success) ==
    /\ CanMutate(syllabusData)
    /\ Save("setInterval", topicId, parseInt(newInterval), syllabusData,
            WrittenInterval(syllabusData, topicId, newInterval), success,
            "Revision schedule updated", "Failed to update schedule")
    /\ UNCHANGED <<localStored, now, filterMode, processedData, viewNow, pendingDelete>>
    /\ UNCHANGED anVars

handleMarkRevised(topicId, success) ==
    /\ CanMutate(syllabusData)
    /\ Save("markRevised", topicId, now, syllabusData,
            WrittenRevised(syllabusData, topicId, now), success,
            "Marked as revised", "Failed to update status")
    /\ UNCHANGED <<localStored, now, filterMode, processedData, viewNow, pendingDelete>>
    /\ UNCHANGED anVars

\* lines 164-170: the handler of the current render starts and awaits the dialog
handleDeleteTopic(topicId) ==
    /\ pendingDelete = NoPending
    /\ pendingDelete' = [topicId |-> topicId, syllabusData |-> syllabusData]
    /\ UNCHANGED <<store, syllabusData, localStored, now, filterMode, processedData,
                   viewNow, hist, toast>>
    /\ UNCHANGED anVars

\* lines 172-193: the dialog answers; the handler goes on with the syllabusData
\* of the render it was created in
ConfirmDelete(isConfirmed, success) ==
    /\ pendingDelete # NoPending
    /\ pendingDelete' = NoPending
    /\ IF isConfirmed /\ CanMutate(pendingDelete.syllabusData)
       THEN Save("deleteTopic", pendingDelete.topicId, 0, pendingDelete.syllabusData,
                 WrittenDelete(pendingDelete.syllabusData, pendingDelete.topicId),
                 success, "Topic deleted", "Failed to delete topic")
       ELSE UNCHANGED <<store, syllabusData, hist, toast>>
    /\ UNCHANGED <<localStored, now, filterMode, processedData, viewNow>>
    /\ UNCHANGED anVars

\* A step of the scheduler when at most limit mutations are started
SchedulerStep(limit) ==
    \/ Push
    \/ Tick
    \/ /\ OpsStarted < limit
       /\ \E topicId \in TopicIds, o \in IntervalOptions, success \in BOOLEAN :
             handleUpdateInterval(topicId, o, success)
    \/ /\ OpsStarted < limit
       /\ \E topicId \in TopicIds, success \in BOOLEAN : handleMarkRevised(topicId, success)
    \/ /\ OpsStarted < limit
       /\ \E topicId \in TopicIds : handleDeleteTopic(topicId)
    \/ \E isConfirmed \in BOOLEAN, success \in BOOLEAN : ConfirmDelete(isConfirmed, success)

NextScheduler == SchedulerStep(MaxOps)

SpecScheduler == InitScheduler /\ [][NextScheduler]_vars

\* The same machine with room for two mutations, one after the other
NextSchedulerPair == SchedulerStep(MaxPairOps)

SpecSchedulerPair == InitScheduler /\ [][NextSchedulerPair]_vars

FilterModes == {"all", "urgent", "active"}

\* line 261: setFilterMode(key); processedData depends on filterMode
SetFilterMode(mode) ==
    /\ mode # filterMode
    /\ filterMode' = mode
    /\ processedData' = ComputeView(syllabusData, localStored, mode, now)
    /\ viewNow' = now
    /\ UNCHANGED <<store, syllabusData, localStored, now, pendingDelete, hist, toast>>
    /\ UNCHANGED anVars

\* The scheduler with its filter buttons
NextSchedulerFilter ==
    \/ SchedulerStep(MaxOps)
    \/ \E mode \in FilterModes : SetFilterMode(mode)

SpecSchedulerFilter == InitScheduler /\ [][NextSchedulerFilter]_vars

----------------------------------------------------------------------------
(* Analytics: strings whose letters matter are sequences of one-letter strings *)

toLowerChar(c) ==
    CASE c = "H" -> "h" [] c = "P" -> "p" [] c = "V" -> "v" [] c = "O" -> "o"
      [] c = "M" -> "m" [] c = "E" -> "e"
      [] OTHER -> c

toLowerCase(str) == [i \in 1..Len(str) |-> toLowerChar(str[i])]

\* String.prototype.includes: sub occurs in str as a run of consecutive letters
includes(str, sub) ==
    \E k \in 0..Len(str) :
        k + Len(sub) <= Len(str) /\ SubSeq(str, k + 1, k + Len(sub)) = sub

\* A time as the number of minutes it lasts; durationMinutes / 60 is its hour value
MinutesOf(log) == Get(log, "durationMinutes", 0)

\* subDays(now, n)
subDays(t, n) == t - n * TicksPerDay

DaysPerYear == 365

\* startOfYear(now); tick 0 is the start of a year
startOfYear(t) == t - (t % (DaysPerYear * TicksPerDay))

\* lines 54-66: the cutoff of a range token, NoDate when there is none
StartDate(range, t) ==
    CASE range = "7d" -> subDays(t, 7)
      [] range = "30d" -> subDays(t, 30)
      [] range = "90d" -> subDays(t, 90)
      [] range = "year" -> startOfYear(t)
      [] OTHER -> NoDate

\* A mutation of the filter: an entry dated at the cutoff is kept
FilterLogsFrom(allLogs, range, t) ==
    IF StartDate(range, t) = NoDate THEN allLogs
    ELSE SelectSeq(allLogs,
                   LAMBDA log : "date" \in DOMAIN log /\ log.date >= StartDate(range, t))

\* lines 64-65
FilterLogs(allLogs, range, t) ==
    IF StartDate(range, t) = NoDate THEN allLogs
    ELSE SelectSeq(allLogs,
                   LAMBDA log : "date" \in DOMAIN log /\ log.date > StartDate(range, t))

\* Math.round of the quotient n / d of two naturals, d > 0.  A quotient of
\* completed * 100 by total lies midway between two whole numbers only when
\* total is a multiple of 8, which no paper of the model reaches
RoundDiv(n, d) == (2 * n + d) \div (2 * d)

\* A mutation of the traversal: the children are not visited
TraverseTop(node) == <<node>>

\* lines 91-99: the nodes of a paper in the order traverse visits them
RECURSIVE Traverse(_)
Traverse(node) ==
    LET RECURSIVE Each(_)
        Each(children) ==
            IF children = <<>> THEN <<>>
            ELSE Traverse(Head(children)) \o Each(Tail(children))
    IN <<node>> \o (IF "children" \in DOMAIN node THEN Each(node.children) ELSE <<>>)

\* lines 77-78: the syllabus Analytics aggregates, NullData when there is none
AnalyticsSyllabus(data, stored) ==
    IF data = NullData THEN NullData
    ELSE LET activeId == IF data.activeSyllabusId # NULL
                         THEN data.activeSyllabusId ELSE stored
         IN IF activeId # NULL /\ activeId \in DOMAIN data.syllabi
            THEN data.syllabi[activeId]
            ELSE IF data.keys = <<>> THEN NullData
                 ELSE data.syllabi[data.keys[1]]

\* lines 85-111, without the presentational short and color
PaperOf(item, completed) ==
    LET nodes == Traverse(item)
        total == Len(nodes)
        done == Len(SelectSeq(nodes, LAMBDA n :
                        \E j \in 1..Len(completed) : completed[j] = n.id))
    IN [id |-> item.id, name |-> item.title, total |-> total, completed |-> done,
        progress |-> IF total > 0 THEN RoundDiv(done * 100, total) ELSE 0]

dynamicPapers(data, stored) ==
    LET syl == AnalyticsSyllabus(data, stored)
    IN IF syl = NullData \/ "items" \notin DOMAIN syl THEN <<>>
       ELSE [i \in 1..Len(syl.items) |->
                PaperOf(syl.items[i], Get(syl, "completed", <<>>))]

\* line 96: the map.set calls in the order they are made
RECURSIVE MapEntries(_)
MapEntries(items) ==
    IF items = <<>> THEN <<>>
    ELSE LET nodes == Traverse(Head(items))
         IN [j \in 1..Len(nodes) |->
                [key |-> toLowerCase(nodes[j].title), value |-> Head(items).id]]
            \o MapEntries(Tail(items))

subjectMap(data, stored) ==
    LET syl == AnalyticsSyllabus(data, stored)
    IN IF syl = NullData \/ "items" \notin DOMAIN syl THEN <<>>
       ELSE MapEntries(syl.items)

\* A mutation of the map: the first value set for a key is kept
MapGetFirst(entries, key) ==
    LET hits == {j \in 1..Len(entries) : entries[j].key = key}
    IN IF hits = {} THEN NULL
       ELSE entries[CHOOSE j \in hits : \A h \in hits : j <= h].value

\* Map.get: the value last set for the key, NULL (undefined) when never set
MapGet(entries, key) ==
    LET hits == {j \in 1..Len(entries) : entries[j].key = key}
    IN IF hits = {} THEN NULL
       ELSE entries[CHOOSE j \in hits : \A h \in hits : h <= j].value

\* A mutation of the lookup: the topic is looked up before the subject
PaperIdForTopicFirst(log, papers, map) ==
    LET subjectLower == toLowerCase(Get(log, "subject", <<>>))
        topicLower == toLowerCase(Get(log, "topic", <<>>))
        byTopic == MapGet(map, topicLower)
        byIndex == IF byTopic # NULL THEN byTopic ELSE MapGet(map, subjectLower)
        found == {i \in 1..Len(papers) :
                    \/ includes(subjectLower, toLowerCase(papers[i].name))
                    \/ includes(toLowerCase(papers[i].name), subjectLower)}
    IN IF byIndex # NULL THEN byIndex
       ELSE IF found = {} THEN NULL
       ELSE papers[CHOOSE i \in found : \A j \in found : i <= j].id

\* lines 125-138: the paper id a log resolves to, NULL when it resolves to none
PaperIdFor(log, papers, map) ==
    LET subjectLower == toLowerCase(Get(log, "subject", <<>>))
        topicLower == toLowerCase(Get(log, "topic", <<>>))
        bySubject == MapGet(map, subjectLower)
        byIndex == IF bySubject # NULL THEN bySubject ELSE MapGet(map, topicLower)
        found == {i \in 1..Len(papers) :
                    \/ includes(subjectLower, toLowerCase(papers[i].name))
                    \/ includes(toLowerCase(papers[i].name), subjectLower)}
    IN IF byIndex # NULL THEN byIndex
       ELSE IF found = {} THEN NULL
       ELSE papers[CHOOSE i \in found : \A j \in found : i <= j].id

\* A mutation of the attribution: a log without a subject is never matched
\* against the paper names
BucketOfNamedSubject(log, papers, map) ==
    LET topicHit == MapGet(map, toLowerCase(Get(log, "topic", <<>>)))
        paperId == IF toLowerCase(Get(log, "subject", <<>>)) = <<>>
                   THEN topicHit ELSE PaperIdFor(log, papers, map)
    IN IF paperId # NULL /\ \E i \in 1..Len(papers) : papers[i].id = paperId
       THEN paperId ELSE "other"

\* lines 140-144: the key of data the log's time is added to
BucketOf(log, papers, map) ==
    LET paperId == PaperIdFor(log, papers, map)
    IN IF paperId # NULL /\ \E i \in 1..Len(papers) : papers[i].id = paperId
       THEN paperId ELSE "other"

\* A mutation of the accumulation: unmatched time is added to no bucket
AddToBucketNoOther(data, log, papers, map) ==
    IF BucketOf(log, papers, map) = "other" THEN data
    ELSE [data EXCEPT ![BucketOf(log, papers, map)] = @ + MinutesOf(log)]

\* data[bucket] += (log.durationMinutes || 0) / 60, kept in minutes
AddToBucket(data, log, papers, map) ==
    [data EXCEPT ![BucketOf(log, papers, map)] = @ + MinutesOf(log)]

\* lines 120-145: the accumulated time of every bucket, in minutes
RECURSIVE Accumulate(_, _, _, _)
Accumulate(data, someLogs, papers, map) ==
    IF someLogs = <<>> THEN data
    ELSE Accumulate(AddToBucket(data, Head(someLogs), papers, map),
                    Tail(someLogs), papers, map)

PaperData(someLogs, papers, map) ==
    Accumulate([k \in {papers[i].id : i \in 1..Len(papers)} \cup {"other"} |-> 0],
               someLogs, papers, map)

\* parseFloat((minutes / 60).toFixed(1)), in tenths of an hour: the tenths the
\* call may print.  toFixed rounds the double it is given to the nearest tenth;
\* when the exact time lies midway between two tenths (3 minutes past a tenth),
\* the double that holds it lies a little under or over, and either tenth may
\* be printed
toFixed1(minutes) ==
    IF minutes % 6 = 3
    THEN {minutes \div 6, minutes \div 6 + 1}
    ELSE {(minutes + 3) \div 6}

\* lines 124-145: the minutes whose hour values line 143 adds to data['other'],
\* in the order the additions are made
OtherAdded(someLogs, papers, map) ==
    LET unmatched == SelectSeq(someLogs,
                               LAMBDA log : BucketOf(log, papers, map) = "other")
    IN [i \in 1..Len(unmatched) |-> MinutesOf(unmatched[i])]

RECURSIVE SumSeq(_)
SumSeq(seq) == IF seq = <<>> THEN 0 ELSE Head(seq) + SumSeq(Tail(seq))

\* The additions of the durations of LogSet that come to half an hour and
\* leave a double above 0.5: 23/60 + 6/60 + 1/60 and 6/60 + 23/60 + 1/60 are
\* 0.5000000000000001; in every other order, and for every other choice of
\* these durations that comes to half an hour, the additions leave 0.5
AboveHalfAsDoubles == { <<23, 6, 1>>, <<6, 23, 1>> }

\* line 154: data['other'] > 0.5, on the double the additions have left.  The
\* double is within a fraction of a second of the exact time, so away from half
\* an hour the comparison is the comparison of the minutes; adding 0 changes
\* nothing
OtherIsSignificant(added) ==
    LET nonZero == SelectSeq(added, LAMBDA m : m # 0)
    IN IF SumSeq(nonZero) = 30
       THEN nonZero \in AboveHalfAsDoubles
       ELSE SumSeq(nonZero) > 30

OtherName == <<"O", "t", "h", "e", "r">>

\* lines 117-169: the results the memo may hold; hours are tenths of an hour
paperHours(someLogs, papers, map) ==
    IF Len(papers) = 0 THEN {<<>>}
    ELSE LET data == PaperData(someLogs, papers, map)
             tenths == UNION {toFixed1(data[k]) : k \in DOMAIN data}
             rows == { [i \in 1..Len(papers) |-> ("hours" :> hs[i]) @@ papers[i]] :
                         hs \in {h \in [1..Len(papers) -> tenths] :
                                   \A i \in 1..Len(papers) :
                                       h[i] \in toFixed1(data[papers[i].id])} }
         IN IF OtherIsSignificant(OtherAdded(someLogs, papers, map))
            THEN { Append(r, [id |-> "other", name |-> OtherName, hours |-> h,
                              progress |-> 0, total |-> 0, completed |-> 0]) :
                     r \in rows, h \in toFixed1(data["other"]) }
            ELSE rows

----------------------------------------------------------------------------
(* The time series of Analytics.  An instant is a number of ticks; day 0 is a
   Monday and the first day of a year *)

\* format(d, 'yyyy-MM-dd'): the calendar day of an instant
DayOf(t) == t \div TicksPerDay

\* format(d, 'MMM d'): the month and the day of the month, without the year
DayLabel(t) == DayOf(t) % DaysPerYear

\* line 173
TrendDaysCount(range) ==
    IF range = "7d" THEN 7 ELSE IF range = "30d" THEN 30 ELSE 15

\* lines 174-189: the buckets in the order of daysMap, the time in minutes
trendBuckets(someLogs, range, t) ==
    LET daysCount == TrendDaysCount(range)
        dated == SelectSeq(someLogs, LAMBDA log : "date" \in DOMAIN log)
    IN [k \in 1..daysCount |->
          LET dateStr == DayLabel(subDays(t, daysCount - k))
              hits == SelectSeq(dated, LAMBDA log : DayLabel(log.date) = dateStr)
          IN [date |-> dateStr,
              minutes |-> SumSeq([i \in 1..Len(hits) |-> MinutesOf(hits[i])]),
              sessions |-> Len(hits)]]

\* lines 191-194: the rows a bucket may be shown as, hours in tenths
TrendRows(bucket) ==
    {[date |-> bucket.date, hours |-> h, sessions |-> bucket.sessions] :
        h \in toFixed1(bucket.minutes)}

\* lines 199-203: the time of each subject, in minutes, before rounding and
\* sorting; a log without subject goes under 'Other'
subjectHours(someLogs) ==
    LET SubjectLabel(log) == Get(log, "subject", OtherName)
        names == {SubjectLabel(someLogs[i]) : i \in 1..Len(someLogs)}
    IN [name \in names |->
          LET hits == SelectSeq(someLogs, LAMBDA log : SubjectLabel(log) = name)
          IN SumSeq([i \in 1..Len(hits) |-> MinutesOf(hits[i])])]

\* lines 245-249: the sessions of each mode
modeCounts(someLogs) ==
    LET ModeLabel(log) == Get(log, "mode", "stopwatch")
        names == {"stopwatch", "pomodoro", "manual"}
                     \cup {ModeLabel(someLogs[i]) : i \in 1..Len(someLogs)}
    IN [name \in names |->
          Len(SelectSeq(someLogs, LAMBDA log : ModeLabel(log) = name))]

\* line 308, in minutes
totalHours(someLogs) == SumSeq([i \in 1..Len(someLogs) |-> MinutesOf(someLogs[i])])

\* startOfWeek(now, { weekStartsOn: 1 }): Monday 00:00 of the week of t
startOfWeek(t) == (DayOf(t) - (DayOf(t) % 7)) * TicksPerDay

\* subWeeks(t, n)
subWeeks(t, n) == t - 7 * n * TicksPerDay

\* line 224: the logs summed into thisWeekHours
InThisWeek(log, t) == "date" \in DOMAIN log /\ log.date >= startOfWeek(t)

\* line 225: the logs summed into lastWeekHours; lastWeekEnd is
\* subDays(thisWeekStart, 1), the Sunday at 00:00
InLastWeek(log, t) ==
    /\ "date" \in DOMAIN log
    /\ ~(log.date >= startOfWeek(t))
    /\ log.date >= subWeeks(startOfWeek(t), 1)
    /\ log.date <= subDays(startOfWeek(t), 1)

\* lines 216-226, in minutes
thisWeekHours(allLogs, t) ==
    LET hits == SelectSeq(allLogs, LAMBDA log : InThisWeek(log, t))
    IN SumSeq([i \in 1..Len(hits) |-> MinutesOf(hits[i])])

lastWeekHours(allLogs, t) ==
    LET hits == SelectSeq(allLogs, LAMBDA log : InLastWeek(log, t))
    IN SumSeq([i \in 1..Len(hits) |-> MinutesOf(hits[i])])

\* (n / d).toFixed(0) for whole n and d > 0: the nearest whole number; when
\* the quotient lies midway the double that holds it decides, and either
\* neighbour may be printed
toFixed0(n, d) ==
    LET q == n \div d
        r == n - q * d
    IN IF 2 * r < d THEN {q} ELSE IF 2 * r > d THEN {q + 1} ELSE {q, q + 1}

\* A mutation of the change: an empty last week always reports 100
weeklyChangeHundred(thisWeek, lastWeek) ==
    IF lastWeek > 0 THEN toFixed0((thisWeek - lastWeek) * 100, lastWeek)
    ELSE {100}

\* A mutation of the change: no change is reported when last week is empty
weeklyChangeZero(thisWeek, lastWeek) ==
    IF lastWeek > 0 THEN toFixed0((thisWeek - lastWeek) * 100, lastWeek)
    ELSE {0}

\* lines 228-230: the values change may take; the number of a toFixed(0) string
weeklyChange(thisWeek, lastWeek) ==
    IF lastWeek > 0 THEN toFixed0((thisWeek - lastWeek) * 100, lastWeek)
    ELSE IF thisWeek > 0 THEN {100} ELSE {0}

\* lines 210-233
weeklyComparison(allLogs, t) ==
    {[thisWeek |-> a, lastWeek |-> b, change |-> c] :
        a \in toFixed1(thisWeekHours(allLogs, t)),
        b \in toFixed1(lastWeekHours(allLogs, t)),
        c \in weeklyChange(thisWeekHours(allLogs, t), lastWeekHours(allLogs, t))}

\* lines 236-241: the values the daily average may show, in tenths of an hour;
\* (totalHours / daysCount).toFixed(1) rounds to the nearest tenth, either
\* tenth when the quotient lies midway
dailyAverage(someLogs, range) ==
    IF Len(someLogs) = 0 THEN {0}
    ELSE LET daysCount == IF range = "7d" THEN 7 ELSE IF range = "30d" THEN 30
                          ELSE IF range = "90d" THEN 90 ELSE 365
         IN toFixed0(totalHours(someLogs), 6 * daysCount)

\* new Date(log.date).getHours(): the tick of the day
HourOf(t) == t % TicksPerDay

\* lines 258-264: the time of each hour of the day that has a dated log, in minutes
peakHourTotals(someLogs) ==
    LET dated == SelectSeq(someLogs, LAMBDA log : "date" \in DOMAIN log)
    IN [h \in {HourOf(dated[i].date) : i \in 1..Len(dated)} |->
          LET hits == SelectSeq(dated, LAMBDA log : HourOf(log.date) = h)
          IN SumSeq([i \in 1..Len(hits) |-> MinutesOf(hits[i])])]

\* lines 265-268: the lists peakHours may hold: the hours rounded to tenths,
\* sorted by falling hours, equal hours in the order their keys were created,
\* the first five kept
peakHours(someLogs) ==
    LET totals == peakHourTotals(someLogs)
        keys == DOMAIN totals
        count == Cardinality(keys)
        kept == IF count < 5 THEN count ELSE 5
        FirstAt(h) == CHOOSE i \in 1..Len(someLogs) :
                         /\ "date" \in DOMAIN someLogs[i] /\ HourOf(someLogs[i].date) = h
                         /\ \A j \in 1..(i - 1) :
                               ~("date" \in DOMAIN someLogs[j]
                                   /\ HourOf(someLogs[j].date) = h)
        tenths == UNION {toFixed1(totals[h]) : h \in keys}
    IN UNION {
         { [i \in 1..kept |-> [hour |-> order[i], hours |-> shown[order[i]]]] :
             order \in {o \in [1..count -> keys] :
                          \A i, j \in 1..count :
                              i < j => /\ o[i] # o[j]
                                       /\ \/ shown[o[i]] > shown[o[j]]
                                          \/ /\ shown[o[i]] = shown[o[j]]
                                             /\ FirstAt(o[i]) < FirstAt(o[j])} }
         : shown \in {f \in [keys -> tenths] :
                         \A h \in keys : f[h] \in toFixed1(totals[h])} }

\* A mutation of the score: every log counts, not every day
consistencyScorePerLog(allLogs, t) ==
    LET last30Days == {DayOf(subDays(t, i)) : i \in 0..29}
        hits == SelectSeq(allLogs, LAMBDA log :
                    "date" \in DOMAIN log /\ DayOf(log.date) \in last30Days)
    IN RoundDiv(Len(hits) * 100, 30)

\* lines 296-306
consistencyScore(allLogs, t) ==
    LET last30Days == {DayOf(subDays(t, i)) : i \in 0..29}
        studyDays == {DayOf(allLogs[i].date) :
                        i \in {j \in 1..Len(allLogs) : "date" \in DOMAIN allLogs[j]}}
    IN RoundDiv(Cardinality(last30Days \cap studyDays) * 100, 30)

----------------------------------------------------------------------------
(* The data Analytics runs on *)

MaxLogs == 3

AnalyticsStartNow == 100 * TicksPerDay

Recent == AnalyticsStartNow - 1
WeekAgo == AnalyticsStartNow - 7 * TicksPerDay

\* The log entries the store may hold
LogSet ==
    { [date |-> Recent, subject |-> <<"h", "i">>, durationMinutes |-> 90],
      [date |-> Recent, subject |-> <<"z", "z">>, durationMinutes |-> 30],
      [date |-> Recent, subject |-> <<"z", "z">>, durationMinutes |-> 31,
       mode |-> "manual"],
      [date |-> Recent, subject |-> <<"H", "i", "x">>, topic |-> <<"P", "o">>,
       durationMinutes |-> 10],
      [date |-> WeekAgo, subject |-> <<"P", "o">>, topic |-> <<"M", "e">>,
       durationMinutes |-> 20],
      [date |-> Recent, subject |-> <<"z", "z">>, durationMinutes |-> 23],
      [date |-> Recent, subject |-> <<"z", "z">>, durationMinutes |-> 6],
      [date |-> Recent, subject |-> <<"z", "z">>, durationMinutes |-> 1],
      [mode |-> "pomodoro"] }

PaperHi ==
    [id |-> "P1", title |-> <<"H", "i">>, children |->
        << [id |-> "T1", title |-> <<"V", "e">>, children |-> <<>>],
           [id |-> "T2", title |-> <<"M", "e">>] >>]

PaperPo ==
    [id |-> "P2", title |-> <<"P", "o">>, children |->
        << [id |-> "T5", title |-> <<"V", "E">>] >>]

\* The collections the store may push to Analytics: two papers that share a
\* title, the second of two syllabi with one paper, a syllabus without items,
\* no syllabus at all
AnalyticsCollections ==
    { [activeSyllabusId |-> NULL, keys |-> <<"s1">>,
       syllabi |-> [k \in {"s1"} |->
                      [items |-> <<PaperHi, PaperPo>>, completed |-> <<"T1">>]]],
      [activeSyllabusId |-> "s2", keys |-> <<"s1", "s2">>,
       syllabi |-> [k \in {"s1", "s2"} |->
                      IF k = "s1"
                      THEN [items |-> <<PaperPo>>, completed |-> <<>>]
                      ELSE [items |-> <<PaperHi>>, completed |-> <<"T1", "T2", "T5">>]]],
      [activeSyllabusId |-> NULL, keys |-> <<"s1">>,
       syllabi |-> [k \in {"s1"} |-> [items |-> <<>>, completed |-> <<>>]]],
      [activeSyllabusId |-> NULL, keys |-> <<>>, syllabi |-> <<>>] }

TimeRanges == {"7d", "30d", "90d", "year", "all"}

----------------------------------------------------------------------------
(* Analytics as a state machine *)

\* The ProgressTracker page is not mounted
SchedulerIdle ==
    /\ store = NullData
    /\ syllabusData = NullData
    /\ localStored = NULL
    /\ filterMode = "all"
    /\ processedData = ComputeView(NullData, NULL, "all", AnalyticsStartNow)
    /\ viewNow = AnalyticsStartNow
    /\ pendingDelete = NoPending
    /\ hist = <<>>
    /\ toast = "none"

\* lines 31-35
InitAnalytics ==
    /\ logs = <<>>
    /\ timeRange = "30d"
    /\ anSyllabusData = NullData
    /\ anLocalStored = NULL
    /\ filteredLogs = <<>>
    /\ quizResults = <<>>
    /\ now = AnalyticsStartNow
    /\ SchedulerIdle

\* line 40: the store has one more log and pushes the list
PushLogs(log) ==
    /\ Len(logs) < MaxLogs
    /\ logs' = Append(logs, log)
    /\ filteredLogs' = FilterLogs(logs', timeRange, now)
    /\ UNCHANGED <<timeRange, anSyllabusData, anLocalStored, now, quizResults>>
    /\ UNCHANGED <<store, syllabusData, localStored, filterMode, processedData,
                   viewNow, pendingDelete, hist, toast>>

\* line 43
PushAnalyticsSyllabus(data) ==
    /\ data # anSyllabusData
    /\ anSyllabusData' = data
    /\ UNCHANGED <<logs, timeRange, anLocalStored, filteredLogs, now, quizResults>>
    /\ UNCHANGED <<store, syllabusData, localStored, filterMode, processedData,
                   viewNow, pendingDelete, hist, toast>>

\* setTimeRange: filteredLogs depends on timeRange
SetTimeRange(range) ==
    /\ range # timeRange
    /\ timeRange' = range
    /\ filteredLogs' = FilterLogs(logs, range, now)
    /\ UNCHANGED <<logs, anSyllabusData, anLocalStored, now, quizResults>>
    /\ UNCHANGED <<store, syllabusData, localStored, filterMode, processedData,
                   viewNow, pendingDelete, hist, toast>>

NextAnalytics ==
    \/ \E log \in LogSet : PushLogs(log)
    \/ \E data \in AnalyticsCollections : PushAnalyticsSyllabus(data)
    \/ \E range \in TimeRanges : SetTimeRange(range)

SpecAnalytics == InitAnalytics /\ [][NextAnalytics]_vars

\* Logs for the attribution of a log without a subject: no subject with a topic
\* of no node, an empty subject with a topic of no node, an empty subject with
\* a topic of a node, a subject of no node and no paper, no property but mode
MapperLogs ==
    { [date |-> Recent, topic |-> <<"z", "z">>, durationMinutes |-> 15],
      [date |-> Recent, subject |-> <<>>, topic |-> <<"q">>, durationMinutes |-> 25],
      [date |-> Recent, subject |-> <<>>, topic |-> <<"V", "e">>, durationMinutes |-> 5],
      [date |-> Recent, subject |-> <<"z", "z">>, durationMinutes |-> 40],
      [mode |-> "pomodoro"] }

NextMapper ==
    \/ \E log \in MapperLogs : PushLogs(log)
    \/ \E data \in AnalyticsCollections : PushAnalyticsSyllabus(data)
    \/ \E range \in TimeRanges : SetTimeRange(range)

SpecMapper == InitAnalytics /\ [][NextMapper]_vars

----------------------------------------------------------------------------
(* Analytics over dated logs *)

MaxDatedLogs == 2

\* A Thursday, day 100 of the second year, after midnight
TrendNow == (DaysPerYear + 100) * TicksPerDay + 1

\* The dates the logs of this part carry: now and earlier the same day, each
\* cutoff and a tick after the 7-day one, the Sunday before this week at 00:00
\* and later, this Monday at 00:00, the start of the year and a tick after it,
\* 29 days ago, the same day a year ago
LogDates ==
    { TrendNow, TrendNow - 1,
      subDays(TrendNow, 7), subDays(TrendNow, 7) + 1,
      subDays(startOfWeek(TrendNow), 1), subDays(startOfWeek(TrendNow), 1) + 1,
      startOfWeek(TrendNow),
      subDays(TrendNow, 29), subDays(TrendNow, 30), subDays(TrendNow, 90),
      startOfYear(TrendNow), startOfYear(TrendNow) + 1,
      subDays(TrendNow, DaysPerYear) }

\* The log entries of this part: a session of 30 minutes at each date, a
\* shorter one today, one of a mode the application does not know, and entries
\* without date, duration or subject
DatedLogSet ==
    { [date |-> d, subject |-> <<"h", "i">>, durationMinutes |-> 30] : d \in LogDates }
    \cup { [date |-> TrendNow, subject |-> <<"h", "i">>, durationMinutes |-> 20,
            mode |-> "manual"],
           [date |-> TrendNow, subject |-> <<"h", "i">>, durationMinutes |-> 5,
            mode |-> "timer"],
           [subject |-> <<"h", "i">>, durationMinutes |-> 60],
           [date |-> TrendNow, subject |-> <<"h", "i">>],
           [date |-> TrendNow, durationMinutes |-> 10] }

InitTrends ==
    /\ logs = <<>>
    /\ timeRange = "30d"
    /\ anSyllabusData = NullData
    /\ anLocalStored = NULL
    /\ filteredLogs = <<>>
    /\ quizResults = <<>>
    /\ now = TrendNow
    /\ store = NullData
    /\ syllabusData = NullData
    /\ localStored = NULL
    /\ filterMode = "all"
    /\ processedData = ComputeView(NullData, NULL, "all", TrendNow)
    /\ viewNow = TrendNow
    /\ pendingDelete = NoPending
    /\ hist = <<>>
    /\ toast = "none"

NextTrends ==
    \/ /\ Len(logs) < MaxDatedLogs
       /\ \E log \in DatedLogSet : PushLogs(log)
    \/ \E range \in TimeRanges : SetTimeRange(range)

SpecTrends == InitTrends /\ [][NextTrends]_vars

----------------------------------------------------------------------------
(* The quiz statistics of Analytics *)

MaxQuiz == 3

\* quiz.topic || 'General'
QuizTopic(quiz) ==
    IF "topic" \in DOMAIN quiz /\ quiz.topic # "" THEN quiz.topic ELSE "General"

\* lines 279-286: the subjects in the order their keys are created
QuizSubjects(results) ==
    LET first == {i \in 1..Len(results) :
                    \A j \in 1..(i - 1) : QuizTopic(results[j]) # QuizTopic(results[i])}
    IN [k \in 1..Cardinality(first) |->
          QuizTopic(results[CHOOSE i \in first :
                               Cardinality({j \in first : j < i}) = k - 1])]

\* A mutation of the accuracy: the mean of the results' own percentages
quizPerformanceMeanOfResults(results) ==
    LET subjects == QuizSubjects(results)
    IN [k \in 1..Len(subjects) |->
          LET own == SelectSeq(results, LAMBDA quiz : QuizTopic(quiz) = subjects[k])
              parts == [i \in 1..Len(own) |->
                          IF Get(own[i], "totalQuestions", 0) > 0
                          THEN RoundDiv(Get(own[i], "score", 0) * 100,
                                        own[i].totalQuestions)
                          ELSE 0]
          IN [subject |-> subjects[k],
              accuracy |-> RoundDiv(SumSeq(parts), Len(own)),
              attempts |-> Len(own)]]

\* lines 277-293.  Math.round of correct / total * 100 is RoundDiv for the
\* totals the results of the model add up to
quizPerformance(results) ==
    LET subjects == QuizSubjects(results)
    IN [k \in 1..Len(subjects) |->
          LET own == SelectSeq(results, LAMBDA quiz : QuizTopic(quiz) = subjects[k])
              correct == SumSeq([i \in 1..Len(own) |-> Get(own[i], "score", 0)])
              total == SumSeq([i \in 1..Len(own) |-> Get(own[i], "totalQuestions", 0)])
          IN [subject |-> subjects[k],
              accuracy |-> IF total > 0 THEN RoundDiv(correct * 100, total) ELSE 0,
              attempts |-> Len(own)]]

\* Math.round of a double that holds the quotient n / d of two naturals, d > 0,
\* up to the error of a few additions: the nearest whole number, and either
\* neighbour when the quotient lies midway
MathRound(n, d) ==
    LET q == n \div d
        r == n - q * d
    IN IF 2 * r < d THEN {q} ELSE IF 2 * r > d THEN {q + 1} ELSE {q, q + 1}

\* q.score / q.totalQuestions: a number, NaN (0 / 0, or a property absent) or
\* Infinity (a positive score over 0)
QuotientKind(quiz) ==
    IF "score" \notin DOMAIN quiz \/ "totalQuestions" \notin DOMAIN quiz THEN "NaN"
    ELSE IF quiz.totalQuestions > 0 THEN "number"
    ELSE IF quiz.score = 0 THEN "NaN" ELSE "Infinity"

RECURSIVE ProductOfTotals(_)
ProductOfTotals(results) ==
    IF results = <<>> THEN 1
    ELSE Head(results).totalQuestions * ProductOfTotals(Tail(results))

\* lines 676-678: the values the Avg Accuracy tile may show, each a number
\* or one of NaN and Infinity.  A NaN among the quotients makes the sum NaN;
\* without one, an Infinity makes it Infinity
avgAccuracy(results) ==
    IF Len(results) = 0 THEN {[kind |-> "number", value |-> 0]}
    ELSE IF \E i \in 1..Len(results) : QuotientKind(results[i]) = "NaN"
         THEN {[kind |-> "NaN"]}
    ELSE IF \E i \in 1..Len(results) : QuotientKind(results[i]) = "Infinity"
         THEN {[kind |-> "Infinity"]}
    ELSE LET d == ProductOfTotals(results)
             n == SumSeq([i \in 1..Len(results) |->
                            results[i].score * 100 * (d \div results[i].totalQuestions)])
         IN {[kind |-> "number", value |-> v] : v \in MathRound(n, Len(results) * d)}

\* The quiz results the store may hold: the specification's two results, one
\* of few questions, one without topic, one of the topic General, and two
\* without questions
QuizSet ==
    { [topic |-> "Polity", score |-> 8, totalQuestions |-> 10],
      [topic |-> "Polity", score |-> 6, totalQuestions |-> 10],
      [topic |-> "Polity", score |-> 1, totalQuestions |-> 2],
      [score |-> 1, totalQuestions |-> 2],
      [topic |-> "General", score |-> 1, totalQuestions |-> 10],
      [topic |-> "Economy", score |-> 0, totalQuestions |-> 0],
      [topic |-> "Economy", score |-> 3, totalQuestions |-> 0] }

\* line 41: the store has one more result and pushes the list
PushQuizResults(quiz) ==
    /\ Len(quizResults) < MaxQuiz
    /\ quizResults' = Append(quizResults, quiz)
    /\ UNCHANGED <<logs, timeRange, anSyllabusData, anLocalStored, filteredLogs, now>>
    /\ UNCHANGED <<store, syllabusData, localStored, filterMode, processedData,
                   viewNow, pendingDelete, hist, toast>>

NextQuiz == \E quiz \in QuizSet : PushQuizResults(quiz)

SpecQuiz == InitAnalytics /\ [][NextQuiz]_vars

----------------------------------------------------------------------------
(* Analytics with each of its inputs there or not *)

MaxInputs == 1

InputLogs ==
    { [date |-> TrendNow, subject |-> <<"h", "i">>, durationMinutes |-> 30],
      [date |-> TrendNow - 1, durationMinutes |-> 10] }

InputQuizResults ==
    { [topic |-> "Polity", score |-> 8, totalQuestions |-> 10],
      [score |-> 1, totalQuestions |-> 2] }

\* Both pages are mounted, before any push: the state of InitTrends
NextInputs ==
    \/ /\ Len(logs) < MaxInputs
       /\ \E log \in InputLogs : PushLogs(log)
    \/ /\ Len(quizResults) < MaxInputs
       /\ \E quiz \in InputQuizResults : PushQuizResults(quiz)
    \/ \E data \in AnalyticsCollections : PushAnalyticsSyllabus(data)
    \/ \E range \in TimeRanges : SetTimeRange(range)
    \/ \E mode \in FilterModes : SetFilterMode(mode)

SpecInputs == InitTrends /\ [][NextInputs]_vars

\* The views Analytics derives in the current state
Papers == dynamicPapers(anSyllabusData, anLocalStored)
PaperHoursNow == paperHours(filteredLogs, Papers, subjectMap(anSyllabusData, anLocalStored))

\* lines 172-195, 210-233, 244-254 and 296-306: what each memo reads
TrendBucketsNow == trendBuckets(filteredLogs, timeRange, now)
ModesNow == modeCounts(filteredLogs)
QuizPerformanceNow == quizPerformance(quizResults)
SubjectsNow == subjectHours(filteredLogs)
PeakHoursNow == peakHours(filteredLogs)
DailyAverageNow == dailyAverage(filteredLogs, timeRange)
AvgAccuracyNow == avgAccuracy(quizResults)
WeeklyNow == weeklyComparison(logs, now)
ConsistencyNow == consistencyScore(logs, now)

----------------------------------------------------------------------------
(* What the claims speak of *)

RECURSIVE AllNodes(_)
AllNodes(items) ==
    UNION { {items[i]} \cup (IF "children" \in DOMAIN items[i]
                             THEN AllNodes(items[i].children) ELSE {})
            : i \in 1..Len(items) }

NodeIds(items) == {n.id : n \in AllNodes(items)}
Leaves(items) == {n \in AllNodes(items) : ~HasChildren(n)}
NodeById(items, id) == CHOOSE n \in AllNodes(items) : n.id = id

\* The tree of the syllabus the scheduler flattens and shows
ShownItems(data) == ActiveItems(data, localStored)

StatOr(item, field, undef) ==
    IF "stats" \in DOMAIN item THEN Get(item.stats, field, undef) ELSE undef

FlagText(item) ==
    IF "stats" \in DOMAIN item /\ "needsRevision" \in DOMAIN item.stats
    THEN (IF item.stats.needsRevision THEN "true" ELSE "false")
    ELSE "undefined"

\* A node without its position: its own properties and the ids of its children
NodeRow(n) ==
    [id |-> n.id, title |-> n.title,
     hasChildren |-> "children" \in DOMAIN n,
     childIds |-> IF "children" \in DOMAIN n
                  THEN [i \in 1..Len(n.children) |-> n.children[i].id] ELSE <<>>,
     hasStats |-> "stats" \in DOMAIN n,
     totalMinutes |-> StatOr(n, "totalMinutes", -1),
     lastStudied |-> StatOr(n, "lastStudied", -2),
     needsRevision |-> FlagText(n),
     revisionInterval |-> StatOr(n, "revisionInterval", -1)]

Writes(op) == {i \in 1..Len(hist) : hist[i].op = op}

\* The due rule as the specification words it, on the stored node
DueByRule(item, t) ==
    \/ FlagText(item) = "true"
    \/ /\ StatOr(item, "lastStudied", NoDate) # NoDate
       /\ t - item.stats.lastStudied >=
            TicksPerDay * (IF StatOr(item, "revisionInterval", -1) = -1
                           THEN 7 ELSE item.stats.revisionInterval)

AgreesWithRule(topics, items, t) ==
    /\ {topics[i].id : i \in 1..Len(topics)} = {n.id : n \in Leaves(items)}
    /\ \A i \in 1..Len(topics) :
          topics[i].stats.needsRevision <=> DueByRule(NodeById(items, topics[i].id), t)

\* C1: every flattened leaf topic is computed due exactly when its stored flag
\* is true or lastStudied is set and the whole days since it reach the stored
\* interval (7 when none is stored); this holds of the memoised view at the
\* instant it was computed and of flattening the store's tree at every instant.
C1_FlattenDueRule ==
    /\ AgreesWithRule(processedData.allTopics, ShownItems(syllabusData), viewNow)
    /\ AgreesWithRule(flattenTopics(ShownItems(store), NULL, now), ShownItems(store), now)

\* The view holds a topic that is due by elapsed days alone, and one never
\* studied that is not due
C1_Witness ==
    /\ \E i \in 1..Len(processedData.allTopics) :
          LET topic == processedData.allTopics[i]
          IN /\ topic.stats.needsRevision
             /\ FlagText(NodeById(ShownItems(syllabusData), topic.id)) # "true"
             /\ topic.stats.daysSince = IntervalOf(topic.stats)
    /\ \E i \in 1..Len(processedData.allTopics) :
          LET topic == processedData.allTopics[i]
          IN /\ ~topic.stats.needsRevision
             /\ Get(topic.stats, "lastStudied", NoDate) = NoDate

\* The topic of a tree as the scheduler would show it at instant t
DueAt(items, id, t) == NeedsRevision(StatsOf(NodeById(items, id)), t)

MarkRevisedHolds(w) ==
    LET after == ShownItems(w.written)
    IN /\ w.topicId \in NodeIds(after)
       /\ StatOr(NodeById(after, w.topicId), "lastStudied", NoDate) = w.arg
       /\ FlagText(NodeById(after, w.topicId)) = "false"
       /\ \A t \in w.arg .. MaxNow :
             t - w.arg < TicksPerDay * IntervalOf(StatsOf(NodeById(after, w.topicId)))
                => ~DueAt(after, w.topicId, t)
       /\ WrittenRevised(w.written, w.topicId, w.arg) = w.written

\* C2: markRevised on a topic of the shown syllabus writes a collection in
\* which that topic has lastStudied = now and needsRevision = false, is not due
\* at any instant less than revisionInterval days later, and a second
\* markRevised at the same instant writes the same collection.
C2_MarkRevised ==
    \A i \in Writes("markRevised") :
        hist[i].topicId \in NodeIds(ShownItems(hist[i].read)) => MarkRevisedHolds(hist[i])

\* C3: the tree of the shown syllabus written by a confirmed deleteTopic(id)
\* has no node with that id at any depth, flattening it yields no topic with
\* that id, and when no node had the id the written tree equals the tree read.
C3_DeleteRemoves ==
    \A i \in Writes("deleteTopic") :
        LET w == hist[i]
            before == ShownItems(w.read)
            after == ShownItems(w.written)
            topics == flattenTopics(after, NULL, now)
        IN /\ w.topicId \notin NodeIds(after)
           /\ \A j \in 1..Len(topics) : topics[j].id # w.topicId
           /\ w.topicId \notin NodeIds(before) => after = before

SetIntervalHolds(w) ==
    LET k == ActiveSyllabusKey(w.read, localStored)
        before == w.read.syllabi[k].items
        after == w.written.syllabi[k].items
    IN /\ StatOr(NodeById(after, w.topicId), "revisionInterval", -1) = w.arg
       /\ NodeRow(NodeById(after, w.topicId))
            = [NodeRow(NodeById(before, w.topicId))
                 EXCEPT !.revisionInterval = w.arg, !.hasStats = TRUE]
       /\ \A n \in AllNodes(before) :
             n.id # w.topicId => NodeRow(n) \in {NodeRow(m) : m \in AllNodes(after)}
       /\ NodeIds(after) = NodeIds(before)
       /\ [j \in 1..Len(after) |-> after[j].id] = [j \in 1..Len(before) |-> before[j].id]
       /\ w.written.syllabi[k].completed = w.read.syllabi[k].completed
       /\ \A other \in DOMAIN w.read.syllabi \ {k} :
             w.written.syllabi[other] = w.read.syllabi[other]
       /\ DOMAIN w.written.syllabi = DOMAIN w.read.syllabi
       /\ w.written.keys = w.read.keys
       /\ w.written.activeSyllabusId = w.read.activeSyllabusId

\* C4: setInterval(topicId, days) sets stats.revisionInterval of the node with
\* that id, at any depth of the shown syllabus's tree, to days, and leaves every
\* other node, every other property of that node, the completed list, every
\* other syllabus and activeSyllabusId as they were read.
C4_SetIntervalFrame ==
    \A i \in Writes("setInterval") :
        hist[i].topicId \in NodeIds(ShownItems(hist[i].read)) => SetIntervalHolds(hist[i])

\* C5: a mutation whose topicId matches no node of the shown syllabus does not
\* raise and writes a collection equal to the snapshot it read.
C5_UnknownIdNoOp ==
    \A i \in 1..Len(hist) :
        hist[i].topicId \notin NodeIds(ShownItems(hist[i].read))
            => /\ MutationKey(hist[i].read) \in DOMAIN hist[i].read.syllabi
               /\ hist[i].written = hist[i].read

\* C6: a mutation leaves the in-memory snapshot and the memoised view as they
\* were, whether the save succeeds or fails; a failed save leaves the store as
\* it was; the snapshot changes only by taking the store's document in a push.
C6_SnapshotOnlyByPush ==
    [][ /\ hist' # hist =>
             /\ syllabusData' = syllabusData
             /\ processedData' = processedData
             /\ ~hist'[Len(hist')].ok => store' = store
        /\ syllabusData' # syllabusData => syllabusData' = store /\ store' = store
      ]_vars

\* A save failed after the handler had changed its copy, and nothing of the
\* copy is in the snapshot or the store
C6_Witness ==
    /\ Len(hist) > 0
    /\ ~hist[Len(hist)].ok
    /\ hist[Len(hist)].written # hist[Len(hist)].read
    /\ syllabusData = hist[Len(hist)].read
    /\ store = hist[Len(hist)].read

\* C7: the syllabus key a mutation picks is the key of the syllabus the
\* scheduler shows, for every snapshot a handler may run on.
C7_MutatesShownSyllabus ==
    /\ CanMutate(syllabusData) =>
          MutationKey(JsonClone(syllabusData)) = ActiveSyllabusKey(syllabusData, localStored)
    /\ (pendingDelete # NoPending /\ CanMutate(pendingDelete.syllabusData)) =>
          MutationKey(JsonClone(pendingDelete.syllabusData))
            = ActiveSyllabusKey(pendingDelete.syllabusData, localStored)

\* The collection a recorded mutation makes of a collection
Applied(w, data) ==
    CASE w.op = "setInterval" ->
            [JsonClone(data) EXCEPT !.syllabi[MutationKey(data)].items =
                updateRecursiveInterval(@, w.topicId, w.arg)]
      [] w.op = "markRevised" -> WrittenRevised(data, w.topicId, w.arg)
      [] w.op = "deleteTopic" -> WrittenDelete(data, w.topicId)

\* C8: when two mutations on different topics are both saved, one after the
\* other, the store holds the first snapshot with both changes applied.
C8_NoLostMutation ==
    (/\ Len(hist) = 2
     /\ hist[1].ok /\ hist[2].ok
     /\ hist[1].topicId # hist[2].topicId)
        => store = Applied(hist[2], Applied(hist[1], hist[1].read))

RECURSIVE SumMinutes(_)
SumMinutes(someLogs) ==
    IF someLogs = <<>> THEN 0
    ELSE Get(Head(someLogs), "durationMinutes", 0) + SumMinutes(Tail(someLogs))

RECURSIVE SumHours(_)
SumHours(result) ==
    IF result = <<>> THEN 0 ELSE Head(result).hours + SumHours(Tail(result))

RECURSIVE SumOf(_, _)
SumOf(f, keys) ==
    IF keys = {} THEN 0
    ELSE LET k == CHOOSE x \in keys : TRUE IN f[k] + SumOf(f, keys \ {k})

HasOther(result) == \E i \in 1..Len(result) : result[i].id = "other"

MapNow == subjectMap(anSyllabusData, anLocalStored)

\* The logs no step of the matching policy attributes to a paper
UnmatchedIn(someLogs, papers, map) ==
    SelectSeq(someLogs, LAMBDA log :
        LET id == PaperIdFor(log, papers, map)
        IN id = NULL \/ \A i \in 1..Len(papers) : papers[i].id # id)

Unmatched(someLogs) == UnmatchedIn(someLogs, Papers, MapNow)

\* The listed hours, in minutes, differ from the total by no more than the
\* rounding of each entry (0.05 hours, 3 minutes)
WithinRounding(result, minutes) ==
    /\ 6 * SumHours(result) - minutes <= 3 * Len(result)
    /\ minutes - 6 * SumHours(result) <= 3 * Len(result)

\* C9 as stated: the hours of the paper entries plus the hours of 'Other' when
\* it is shown equal the total of the filtered logs' durationMinutes / 60, up
\* to display rounding, for every paper list.
C9_HoursAddUp ==
    \A result \in PaperHoursNow : WithinRounding(result, SumMinutes(filteredLogs))

\* C9 amended: with a non-empty paper list every log's minutes are added to
\* exactly one bucket, so the unrounded buckets, 'other' included, add up to the
\* logs' total; the listed hours add up to it within display rounding when
\* 'Other' is shown, and fall short of it by the omitted unmatched time, at
\* most 30 minutes, when it is not; with an empty paper list the result is
\* empty whatever the logs.
C9_HoursAddUpAmended ==
    /\ Len(Papers) = 0 => PaperHoursNow = {<<>>}
    /\ Len(Papers) > 0 =>
          LET papers == Papers
              map == MapNow
              data == PaperData(filteredLogs, papers, map)
              total == SumMinutes(filteredLogs)
          IN /\ SumOf(data, DOMAIN data) = total
             /\ data["other"] = SumMinutes(UnmatchedIn(filteredLogs, papers, map))
             /\ \A result \in paperHours(filteredLogs, papers, map) :
                   IF HasOther(result)
                   THEN WithinRounding(result, total)
                   ELSE /\ data["other"] <= 30
                        /\ WithinRounding(result, total - data["other"])

\* The specification's scenario: 90 minutes on a paper, 30 unmatched minutes
\* omitted from the result
C9_Witness ==
    /\ Len(Papers) > 0
    /\ SumMinutes(Unmatched(filteredLogs)) = 30
    /\ SumMinutes(filteredLogs) = 120
    /\ \E result \in PaperHoursNow : ~HasOther(result) /\ SumHours(result) = 15

\* C10: 'Other' is in the result exactly when the unmatched time is more than
\* 30 minutes: 30 minutes omit it, 31 show it, for every paper list, the empty
\* one included.
C10_OtherIffOverHalfHour ==
    \A result \in PaperHoursNow :
        HasOther(result) <=> SumMinutes(Unmatched(filteredLogs)) > 30

\* Of C10, the part about lists that have a paper
C10_OtherIffOverHalfHourWithPapers ==
    Len(Papers) > 0 => C10_OtherIffOverHalfHour

\* The words of a log as the policy compares them
SubjectOf(log) == toLowerCase(Get(log, "subject", <<>>))
TopicOf(log) == toLowerCase(Get(log, "topic", <<>>))

\* The papers of a list whose name contains the subject or is contained in it
SubstringHitsIn(log, papers) ==
    {i \in 1..Len(papers) :
        \/ includes(toLowerCase(papers[i].name), SubjectOf(log))
        \/ includes(SubjectOf(log), toLowerCase(papers[i].name))}

SubstringHits(log) == SubstringHitsIn(log, Papers)

\* The bucket the four steps of the policy give a log
PolicyBucketIn(log, papers, map) ==
    LET bySubject == MapGet(map, SubjectOf(log))
        byTopic == MapGet(map, TopicOf(log))
        hits == SubstringHitsIn(log, papers)
    IN IF bySubject # NULL THEN bySubject
       ELSE IF byTopic # NULL THEN byTopic
       ELSE IF hits # {} THEN papers[CHOOSE i \in hits : \A j \in hits : i <= j].id
       ELSE "other"

RECURSIVE SubtreeSize(_)
SubtreeSize(node) ==
    1 + (IF "children" \in DOMAIN node
         THEN SumOf([i \in 1..Len(node.children) |-> SubtreeSize(node.children[i])],
                    1..Len(node.children))
         ELSE 0)

\* The nodes in the subtree of a node whose id is one of ids
RECURSIVE SubtreeDone(_, _)
SubtreeDone(node, ids) ==
    (IF node.id \in ids THEN 1 ELSE 0)
    + (IF "children" \in DOMAIN node
       THEN SumOf([i \in 1..Len(node.children) |-> SubtreeDone(node.children[i], ids)],
                  1..Len(node.children))
       ELSE 0)

RECURSIVE SubtreeIds(_)
SubtreeIds(node) ==
    {node.id} \cup (IF "children" \in DOMAIN node
                    THEN UNION {SubtreeIds(node.children[i]) : i \in 1..Len(node.children)}
                    ELSE {})

AnalyticsNow == AnalyticsSyllabus(anSyllabusData, anLocalStored)

\* C12: each paper summary has total = the nodes of the paper's subtree, the
\* paper included, completed = those of them whose id is in the completed set,
\* completed <= total, progress = completed / total * 100 rounded to a nearest
\* whole number, from 0 to 100; completed ids of no node of the paper change
\* nothing.
C12_PaperProgress ==
    \A i \in 1..Len(Papers) :
        LET item == AnalyticsNow.items[i]
            ids == {AnalyticsNow.completed[j] : j \in 1..Len(AnalyticsNow.completed)}
            p == Papers[i]
        IN /\ p.total = SubtreeSize(item)
           /\ p.completed = SubtreeDone(item, ids)
           /\ p.completed = SubtreeDone(item, ids \cap SubtreeIds(item))
           /\ p.completed <= p.total
           /\ p.progress \in 0..100
           /\ 2 * (100 * p.completed - p.progress * p.total) <= p.total
           /\ 2 * (p.progress * p.total - 100 * p.completed) <= p.total
           /\ p.total = 0 => p.progress = 0

\* A paper of three nodes with two of them completed, and a completed id that
\* is in no node of the paper: progress 67
C12_Witness ==
    \E i \in 1..Len(Papers) :
        /\ Papers[i].total = 3
        /\ Papers[i].completed = 2
        /\ Papers[i].progress = 67
        /\ \E j \in 1..Len(AnalyticsNow.completed) :
              AnalyticsNow.completed[j] \notin SubtreeIds(AnalyticsNow.items[i])

\* The papers, by position, whose subtree holds a node with the title, compared
\* in lower case
PapersWithTitle(title) ==
    {i \in 1..Len(AnalyticsNow.items) :
        \E n \in AllNodes(<<AnalyticsNow.items[i]>>) : toLowerCase(n.title) = title}

\* C13: the index has an entry for the lower-cased title of every node of the
\* active syllabus and for nothing else; the entry's value is the id of the
\* last paper, in item order, whose subtree holds a node with that title.
C13_TitleIndex ==
    Len(Papers) > 0 =>
        LET map == MapNow
            items == AnalyticsNow.items
        IN /\ {map[j].key : j \in 1..Len(map)}
                 = {toLowerCase(n.title) : n \in AllNodes(items)}
           /\ \A n \in AllNodes(items) :
                 LET with == PapersWithTitle(toLowerCase(n.title))
                 IN /\ with # {}
                    /\ MapGet(map, toLowerCase(n.title))
                         = items[CHOOSE i \in with : \A j \in with : j <= i].id

\* A title that two papers hold in different case is indexed to the second
\* paper, and a node below a paper is indexed to the paper, not to itself
C13_Witness ==
    /\ Len(Papers) = 2
    /\ PapersWithTitle(<<"v", "e">>) = {1, 2}
    /\ MapGet(MapNow, <<"v", "e">>) = "P2"
    /\ MapGet(MapNow, <<"m", "e">>) = "P1"

\* The syllabus the scheduler shows for a collection, NullData when none
SchedulerSyllabus(data, stored) ==
    IF ActiveSyllabusKey(data, stored) = NULL THEN NullData
    ELSE data.syllabi[ActiveSyllabusKey(data, stored)]

\* C14: for the same collection and the same last-used id the Analytics
\* aggregator and the scheduler select the same syllabus, also when an id names
\* no syllabus of the collection.
C14_SameSelection ==
    syllabusData # NullData =>
        AnalyticsSyllabus(syllabusData, localStored)
          = SchedulerSyllabus(syllabusData, localStored)

\* The cutoff of a range token: now less 7, 30 or 90 days, or the start of the
\* calendar year of now
Cutoff(range) ==
    CASE range = "7d" -> now - 7 * TicksPerDay
      [] range = "30d" -> now - 30 * TicksPerDay
      [] range = "90d" -> now - 90 * TicksPerDay
      [] range = "year" -> (DayOf(now) - (DayOf(now) % 365)) * TicksPerDay

\* C15: the filtered logs are exactly the entries dated strictly after the
\* cutoff of the selected range, in their order; an entry dated at the cutoff is
\* left out; for the token all every entry is kept.
C15_TimeFilter ==
    filteredLogs =
        IF timeRange = "all" THEN logs
        ELSE SelectSeq(logs, LAMBDA log :
                 "date" \in DOMAIN log /\ log.date > Cutoff(timeRange))

\* Under 7d, an entry dated at the cutoff is left out and one dated a tick
\* later is kept
C15_Witness ==
    /\ timeRange = "7d"
    /\ Len(logs) = 2
    /\ \A i \in 1..2 : "date" \in DOMAIN logs[i]
    /\ \E i \in 1..2 : logs[i].date = Cutoff("7d")
    /\ Len(filteredLogs) = 1
    /\ filteredLogs[1].date = Cutoff("7d") + 1

Malformed(log) ==
    \/ "date" \notin DOMAIN log
    \/ "durationMinutes" \notin DOMAIN log
    \/ "subject" \notin DOMAIN log

Occurrences(someLogs, log) == Len(SelectSeq(someLogs, LAMBDA l : l = log))

\* C16: for every range token, an entry that lacks date, durationMinutes or
\* subject is among the entries the session count, the total hours, the subject
\* distribution, the paper hours and the mode distribution are made of, with
\* duration 0 and the sentinel subject and mode.
C16_MalformedCounted ==
    \A i \in 1..Len(logs) :
        Malformed(logs[i]) =>
            /\ Occurrences(filteredLogs, logs[i]) = Occurrences(logs, logs[i])
            /\ Get(logs[i], "subject", OtherName) \in DOMAIN subjectHours(filteredLogs)
            /\ modeCounts(filteredLogs)[Get(logs[i], "mode", "stopwatch")]
                  >= Occurrences(logs, logs[i])
            /\ totalHours(filteredLogs) >= Get(logs[i], "durationMinutes", 0)
            /\ Len(Papers) > 0 =>
                  SumOf(PaperData(filteredLogs, Papers, MapNow),
                        DOMAIN PaperData(filteredLogs, Papers, MapNow))
                    = totalHours(filteredLogs)

\* The same of the entries that have a date, and under the range token all
C16_MalformedCountedWhenDated ==
    \A i \in 1..Len(logs) :
        (Malformed(logs[i]) /\ ("date" \in DOMAIN logs[i] \/ timeRange = "all")
           /\ ("date" \in DOMAIN logs[i] => logs[i].date > subDays(now, 7)))
          => /\ Occurrences(filteredLogs, logs[i]) = Occurrences(logs, logs[i])
             /\ Get(logs[i], "subject", OtherName) \in DOMAIN subjectHours(filteredLogs)
             /\ modeCounts(filteredLogs)[Get(logs[i], "mode", "stopwatch")]
                   >= Occurrences(logs, logs[i])

\* The filtered logs of a calendar day, the year included
OnDay(day) ==
    SelectSeq(filteredLogs, LAMBDA log : "date" \in DOMAIN log /\ DayOf(log.date) = day)

\* C17: the trend has one bucket for each of the last 7 (7d), 30 (30d) or 15
\* (90d, year, all) calendar days, oldest first; the bucket of a day holds the
\* sessions and the time of the filtered logs of that very day, so a filtered
\* log of any other day, in any year, changes no bucket.
C17_TrendBuckets ==
    LET n == IF timeRange = "7d" THEN 7 ELSE IF timeRange = "30d" THEN 30 ELSE 15
    IN /\ Len(TrendBucketsNow) = n
       /\ \A k \in 1..n :
             /\ TrendBucketsNow[k].sessions = Len(OnDay(DayOf(now) - (n - k)))
             /\ TrendBucketsNow[k].minutes = SumMinutes(OnDay(DayOf(now) - (n - k)))

\* The same under every range token but all, of logs not dated after now
C17_TrendBucketsWithCutoff ==
    (/\ timeRange # "all"
     /\ \A i \in 1..Len(logs) : "date" \in DOMAIN logs[i] => logs[i].date <= now)
      => C17_TrendBuckets

\* Monday 00:00 of the week of now
WeekStart == (DayOf(now) - (DayOf(now) % 7)) * TicksPerDay

\* C18: thisWeek is the time of the logs dated at or after the most recent
\* Monday 00:00, lastWeek the time of the logs dated from the Monday before
\* up to the end of the Sunday before, at any time of day.
C18_WeeklyPartition ==
    /\ thisWeekHours(logs, now)
         = SumMinutes(SelectSeq(logs, LAMBDA log :
               "date" \in DOMAIN log /\ log.date >= WeekStart))
    /\ lastWeekHours(logs, now)
         = SumMinutes(SelectSeq(logs, LAMBDA log :
               /\ "date" \in DOMAIN log
               /\ log.date >= WeekStart - 7 * TicksPerDay
               /\ log.date < WeekStart))

\* The same when no log is dated on the Sunday before this week after 00:00
C18_WeeklyPartitionButSunday ==
    (\A i \in 1..Len(logs) :
        "date" \in DOMAIN logs[i] =>
            ~(logs[i].date > WeekStart - TicksPerDay /\ logs[i].date < WeekStart))
      => C18_WeeklyPartition

\* The time of the dated logs of a span of instants, from the unfiltered logs
TimeIn(from, upto) ==
    SumMinutes(SelectSeq(logs, LAMBDA log :
        "date" \in DOMAIN log /\ log.date >= from /\ log.date <= upto))

\* C19 as stated: change is (thisWeek - lastWeek) / lastWeek * 100 when
\* lastWeek > 0, 100 when only lastWeek is 0, 0 when both are 0.
C19_WeeklyChange ==
    \A w \in WeeklyNow :
        LET a == thisWeekHours(logs, now)
            b == lastWeekHours(logs, now)
        IN /\ b > 0 => w.change * b = (a - b) * 100
           /\ (b = 0 /\ a > 0) => w.change = 100
           /\ (b = 0 /\ a = 0) => w.change = 0

\* C19 amended: change is (thisWeek - lastWeek) / lastWeek * 100 rounded to a
\* nearest whole number when lastWeek > 0, 100 when only lastWeek is 0, 0 when
\* both are 0, where thisWeek and lastWeek are the unrounded sums the
\* comparison makes of the unfiltered logs, whatever range is selected.
C19_WeeklyChangeAmended ==
    \A w \in WeeklyNow :
        LET a == TimeIn(startOfWeek(now), now + DaysPerYear * TicksPerDay)
            b == TimeIn(subWeeks(startOfWeek(now), 1), subDays(startOfWeek(now), 1))
        IN /\ b > 0 => /\ 2 * (w.change * b - (a - b) * 100) <= b
                       /\ 2 * ((a - b) * 100 - w.change * b) <= b
           /\ (b = 0 /\ a > 0) => w.change = 100
           /\ (b = 0 /\ a = 0) => w.change = 0

\* 20 minutes this week after 30 the week before, under a range that filters
\* the older log out: change is -33
C19_Witness ==
    /\ timeRange = "7d"
    /\ Len(filteredLogs) = 1
    /\ thisWeekHours(logs, now) = 20
    /\ lastWeekHours(logs, now) = 30
    /\ WeeklyNow = {[thisWeek |-> 3, lastWeek |-> 5, change |-> -33]}

\* The days, among today and the 29 before, that have a dated log
StudyDaysInWindow ==
    {k \in 0..29 : \E i \in 1..Len(logs) :
        "date" \in DOMAIN logs[i] /\ DayOf(logs[i].date) = DayOf(now) - k}

\* C20: the consistency score is round(d / 30 * 100), d the number of days
\* among today and the 29 before that have a dated log, from the unfiltered
\* logs; it is from 0 to 100.
C20_ConsistencyScore ==
    /\ ConsistencyNow \in 0..100
    /\ 2 * (30 * ConsistencyNow - 100 * Cardinality(StudyDaysInWindow)) <= 30
    /\ 2 * (100 * Cardinality(StudyDaysInWindow) - 30 * ConsistencyNow) <= 30

\* Two logs of one day, or one of today and one of 30 days ago, under a range
\* that filters: one day counts, score 3
C20_Witness ==
    /\ Len(logs) = 2
    /\ \A i \in 1..2 : "date" \in DOMAIN logs[i]
    /\ logs[1] # logs[2]
    /\ DayOf(logs[1].date) = DayOf(logs[2].date)
    /\ timeRange = "7d"
    /\ ConsistencyNow = 3

\* The modes the application knows
KnownModes == {"stopwatch", "pomodoro", "manual"}

\* The mode a log counts under when absent and unknown modes go to stopwatch
ModeByPolicy(log) ==
    IF "mode" \in DOMAIN log /\ log.mode \in KnownModes THEN log.mode ELSE "stopwatch"

\* C21: the mode distribution has exactly the entries stopwatch, pomodoro and
\* manual; each filtered log is counted under its mode when that is one of the
\* three and under stopwatch otherwise; the counts add up to the number of
\* filtered logs.
C21_ModeDistribution ==
    /\ DOMAIN ModesNow = KnownModes
    /\ \A name \in KnownModes :
          ModesNow[name]
            = Len(SelectSeq(filteredLogs, LAMBDA log : ModeByPolicy(log) = name))
    /\ SumOf(ModesNow, DOMAIN ModesNow) = Len(filteredLogs)

\* The same of logs whose mode is absent or one of the three
C21_ModeDistributionKnownModes ==
    (\A i \in 1..Len(filteredLogs) :
        "mode" \in DOMAIN filteredLogs[i] => filteredLogs[i].mode \in KnownModes)
      => C21_ModeDistribution

\* The results of a topic, those without topic being of the topic General
ResultsOf(topic) ==
    SelectSeq(quizResults, LAMBDA quiz :
        (IF "topic" \in DOMAIN quiz /\ quiz.topic # "" THEN quiz.topic ELSE "General")
          = topic)

RECURSIVE SumField(_, _)
SumField(seq, field) ==
    IF seq = <<>> THEN 0 ELSE Get(Head(seq), field, 0) + SumField(Tail(seq), field)

\* C22: the quiz performance has one entry for each topic that has a result,
\* General standing for no topic; attempts is the number of the topic's
\* results, accuracy is the whole number nearest to the sum of their scores
\* over the sum of their totalQuestions, times 100, and 0 when that sum is 0;
\* the attempts add up to the number of results.
C22_QuizPerformance ==
    LET perf == QuizPerformanceNow
    IN /\ \A i, j \in 1..Len(perf) : perf[i].subject = perf[j].subject => i = j
       /\ {perf[i].subject : i \in 1..Len(perf)}
            = {t \in {"Polity", "General", "Economy"} : Len(ResultsOf(t)) > 0}
       /\ \A i \in 1..Len(perf) :
             LET own == ResultsOf(perf[i].subject)
                 correct == SumField(own, "score")
                 total == SumField(own, "totalQuestions")
             IN /\ perf[i].attempts = Len(own)
                /\ total = 0 => perf[i].accuracy = 0
                /\ total > 0 =>
                      /\ 2 * (perf[i].accuracy * total - 100 * correct) <= total
                      /\ 2 * (100 * correct - perf[i].accuracy * total) <= total
       /\ SumSeq([i \in 1..Len(perf) |-> perf[i].attempts]) = Len(quizResults)

\* The specification's scenario, with a result that has no topic: Polity has
\* accuracy 70 in 2 attempts, General 50 in 1
C22_Witness ==
    /\ Len(quizResults) = 3
    /\ QuizPerformanceNow
         = << [subject |-> "Polity", accuracy |-> 70, attempts |-> 2],
              [subject |-> "General", accuracy |-> 50, attempts |-> 1] >>

\* The product of the results' totalQuestions, and the sum of the results'
\* score / totalQuestions * 100 as a number of parts of that product
RECURSIVE TotalsProduct(_)
TotalsProduct(seq) ==
    IF seq = <<>> THEN 1 ELSE Head(seq).totalQuestions * TotalsProduct(Tail(seq))

RECURSIVE PercentParts(_, _)
PercentParts(seq, whole) ==
    IF seq = <<>> THEN 0
    ELSE (100 * Head(seq).score * whole) \div Head(seq).totalQuestions
           + PercentParts(Tail(seq), whole)

\* C23: the average accuracy is a number for every list of results, also one
\* with a result of no questions: 0 for the empty list, else the whole number
\* nearest to the mean of the results' score / totalQuestions * 100.
C23_AverageDefined ==
    \A v \in AvgAccuracyNow :
        /\ v.kind = "number"
        /\ quizResults = <<>> => v.value = 0
        /\ (/\ quizResults # <<>>
            /\ \A i \in 1..Len(quizResults) : quizResults[i].totalQuestions > 0) =>
              LET whole == TotalsProduct(quizResults)
                  parts == PercentParts(quizResults, whole)
                  count == Len(quizResults)
              IN /\ 2 * (v.value * count * whole - parts) <= count * whole
                 /\ 2 * (parts - v.value * count * whole) <= count * whole

\* The same of results that all have questions
C23_AverageDefinedWithQuestions ==
    (\A i \in 1..Len(quizResults) : quizResults[i].totalQuestions > 0)
      => C23_AverageDefined

\* The nodes of a list of trees, each before its children, in list order
RECURSIVE PreOrder(_)
PreOrder(items) ==
    IF items = <<>> THEN <<>>
    ELSE <<Head(items)>>
           \o (IF "children" \in DOMAIN Head(items) THEN PreOrder(Head(items).children)
               ELSE <<>>)
           \o PreOrder(Tail(items))

\* The titles of the nodes a node is a child of
ParentTitles(items, id) ==
    {n.title : n \in {m \in AllNodes(items) :
                        /\ "children" \in DOMAIN m
                        /\ \E j \in 1..Len(m.children) : m.children[j].id = id}}

\* C24: the flattened topics are the nodes of the shown syllabus without
\* children, each once, in depth-first order; a topic's parentSubject is the
\* title of the node it is a child of, General when it is a top-level item.
C24_FlattenLeaves ==
    LET items == ShownItems(syllabusData)
        topics == processedData.allTopics
        leaves == SelectSeq(PreOrder(items), LAMBDA n : ~HasChildren(n))
    IN /\ [i \in 1..Len(topics) |-> topics[i].id] = [i \in 1..Len(leaves) |-> leaves[i].id]
       /\ \A i \in 1..Len(topics) :
             /\ topics[i].title = leaves[i].title
             /\ ParentTitles(items, topics[i].id) \in {{}, {topics[i].parentSubject}}
             /\ ParentTitles(items, topics[i].id) = {} => topics[i].parentSubject = "General"

\* The view lists a topic two levels down under its parent, not under the
\* paper, next to a topic without children list and one with an empty one
C24_Witness ==
    /\ Len(processedData.allTopics) = 3
    /\ processedData.allTopics[1].id = "T1"
    /\ processedData.allTopics[1].parentSubject = "Ancient"
    /\ processedData.allTopics[2].id = "T2"
    /\ processedData.allTopics[2].parentSubject = "History"
    /\ processedData.allTopics[3].id = "T4"

\* The view lists a top-level item that has lost its only child
C24_TopLevelTopic ==
    /\ Len(processedData.allTopics) = 1
    /\ processedData.allTopics[1].id = "P2"
    /\ processedData.allTopics[1].parentSubject = "General"

\* The topics the grouped output lists
GroupedTopics ==
    UNION { {processedData.grouped[g][i] : i \in 1..Len(processedData.grouped[g])}
            : g \in DOMAIN processedData.grouped }

GroupedCount ==
    SumOf([g \in DOMAIN processedData.grouped |-> Len(processedData.grouped[g])],
          DOMAIN processedData.grouped)

\* C25: under the filter active every listed topic has totalMinutes > 0 and
\* is not due, and as many topics are listed as stats.active counts; under
\* the filter for due topics every listed topic is due, and as many are listed
\* as stats.urgent counts; after any setInterval or markRevised.
C25_FilterAgreesWithStats ==
    /\ filterMode = "active" =>
          /\ \A topic \in GroupedTopics :
                /\ "totalMinutes" \in DOMAIN topic.stats
                /\ topic.stats.totalMinutes > 0
                /\ ~topic.stats.needsRevision
          /\ GroupedCount = processedData.stats.active
    /\ filterMode = "urgent" =>
          /\ \A topic \in GroupedTopics : topic.stats.needsRevision
          /\ GroupedCount = processedData.stats.urgent

\* The same while every topic of the shown syllabus has stats with totalMinutes
C25_FilterAgreesWithStatsOfStudied ==
    (\A n \in Leaves(ShownItems(syllabusData)) :
        "stats" \in DOMAIN n => "totalMinutes" \in DOMAIN n.stats)
      => C25_FilterAgreesWithStats

\* There is no syllabus to aggregate: no collection, or one without syllabi
NoSyllabus(data) == data = NullData \/ data.keys = <<>>

\* C26: without a syllabus collection the paper list and the title index are
\* empty, the Mapper's list is empty whatever the logs, and the scheduler's
\* grouping is empty with total, urgent and active 0; without logs every trend
\* bucket is 0, the subject distribution and the peak hours are empty,
\* thisWeek, lastWeek and change are 0, the daily average and the consistency
\* score are 0; without quiz results the performance list is empty.
C26_MissingInputs ==
    /\ NoSyllabus(anSyllabusData) =>
          /\ Papers = <<>>
          /\ MapNow = <<>>
          /\ PaperHoursNow = {<<>>}
    /\ syllabusData = NullData =>
          /\ DOMAIN processedData.grouped = {}
          /\ processedData.stats = [total |-> 0, urgent |-> 0, active |-> 0]
    /\ logs = <<>> =>
          /\ \A k \in 1..Len(TrendBucketsNow) :
                /\ TrendBucketsNow[k].sessions = 0
                /\ \A row \in TrendRows(TrendBucketsNow[k]) : row.hours = 0
          /\ DOMAIN SubjectsNow = {}
          /\ PeakHoursNow = {<<>>}
          /\ \A w \in WeeklyNow : w.thisWeek = 0 /\ w.lastWeek = 0 /\ w.change = 0
          /\ WeeklyNow # {}
          /\ DailyAverageNow = {0}
          /\ ConsistencyNow = 0
    /\ quizResults = <<>> => QuizPerformanceNow = <<>>

\* A collection without syllabi has been pushed and the range and the filter
\* changed while there are neither logs nor quiz results
C26_Witness ==
    /\ anSyllabusData # NullData
    /\ anSyllabusData.keys = <<>>
    /\ logs = <<>>
    /\ quizResults = <<>>
    /\ timeRange = "7d"
    /\ filterMode = "active"
    /\ Len(TrendBucketsNow) = 7

\* Logs and quiz results are there and the syllabus is not: the Mapper's list
\* is empty, the other views are not
C26_LogsWithoutSyllabus ==
    /\ anSyllabusData = NullData
    /\ Len(filteredLogs) = 1
    /\ Len(QuizPerformanceNow) = 1
    /\ PaperHoursNow = {<<>>}
    /\ \E rows \in PeakHoursNow : Len(rows) = 1
    /\ DailyAverageNow # {0}

TopicIdSet(topics) == {topics[i].id : i \in 1..Len(topics)}

\* The ids of the leaves under the nodes of a tree that carry an id
LeavesUnder(items, id) ==
    UNION { {m.id : m \in Leaves(<<n>>)} : n \in {n \in AllNodes(items) : n.id = id} }

\* The last mutation is a saved deleteTopic and its collection has been pushed
DeletePushed ==
    /\ Len(hist) > 0
    /\ hist[Len(hist)].op = "deleteTopic"
    /\ hist[Len(hist)].ok
    /\ syllabusData = hist[Len(hist)].written
    /\ hist[Len(hist)].topicId \in NodeIds(ShownItems(hist[Len(hist)].read))

\* C27: after a confirmed, saved and pushed deleteTopic(id) the ids of the
\* flattened topics are the ids flattened before the deletion without the
\* leaves of the removed subtree; no other node becomes a listed topic.
C27_DeleteOnlyRemoves ==
    DeletePushed =>
        LET w == hist[Len(hist)]
            before == flattenTopics(ShownItems(w.read), NULL, viewNow)
        IN TopicIdSet(processedData.allTopics)
             = TopicIdSet(before) \ LeavesUnder(ShownItems(w.read), w.topicId)

\* The same when the handler changed the syllabus that is shown and the removed
\* node was not the only child of its parent
C27_DeleteOnlyRemovesWithSibling ==
    (/\ DeletePushed
     /\ MutationKey(hist[Len(hist)].read)
          = ActiveSyllabusKey(hist[Len(hist)].read, localStored)
     /\ \A n \in AllNodes(ShownItems(hist[Len(hist)].read)) :
           HasChildren(n) =>
              \E j \in 1..Len(n.children) : n.children[j].id # hist[Len(hist)].topicId)
        => LET w == hist[Len(hist)]
               before == flattenTopics(ShownItems(w.read), NULL, viewNow)
           IN TopicIdSet(processedData.allTopics)
                = TopicIdSet(before) \ LeavesUnder(ShownItems(w.read), w.topicId)

\* A node with children was deleted from the shown syllabus and pushed
C27_SubtreeDeleted ==
    /\ DeletePushed
    /\ HasChildren(NodeById(ShownItems(hist[Len(hist)].read), hist[Len(hist)].topicId))
    /\ hist[Len(hist)].topicId \notin NodeIds(ShownItems(syllabusData))

\* C28: the collection a confirmed deleteTopic writes is the latest snapshot
\* known at the moment of the write without the topic; a collection pushed
\* while the confirmation was pending is not written back in an older state.
C28_DeleteWritesLatest ==
    [][ (hist' # hist /\ hist'[Len(hist')].op = "deleteTopic")
            => hist'[Len(hist')].written = WrittenDelete(syllabusData, hist'[Len(hist')].topicId)
      ]_vars

\* The same when no push arrived between the opening of the dialog and its answer
C28_DeleteWritesLatestWithoutPush ==
    [][ (/\ hist' # hist
         /\ hist'[Len(hist')].op = "deleteTopic"
         /\ pendingDelete.syllabusData = syllabusData)
            => hist'[Len(hist')].written = WrittenDelete(syllabusData, hist'[Len(hist')].topicId)
      ]_vars

\* A saved delete wrote back what another saved mutation had changed
C28_ChangeReverted ==
    /\ Len(hist) = 2
    /\ hist[1].ok /\ hist[2].ok
    /\ hist[2].op = "deleteTopic"
    /\ hist[1].written # hist[1].read
    /\ hist[2].read = hist[1].read
    /\ store = WrittenDelete(hist[1].read, hist[2].topicId)
    /\ hist[1].topicId # hist[2].topicId

\* C29: the due status the page shows is the due rule on the latest pushed
\* syllabus at the current instant, also when only time has passed since the
\* view was computed.
C29_DueStatusCurrent ==
    AgreesWithRule(processedData.allTopics, ShownItems(syllabusData), now)

\* The same at the instant the view was computed
C29_DueStatusCurrentSameInstant ==
    viewNow = now => AgreesWithRule(processedData.allTopics, ShownItems(syllabusData), now)

\* A topic became due by elapsed days after the view was computed
C29_DueAfterView ==
    /\ viewNow < now
    /\ \E i \in 1..Len(processedData.allTopics) :
          LET topic == processedData.allTopics[i]
              node == NodeById(ShownItems(syllabusData), topic.id)
          IN /\ ~topic.stats.needsRevision
             /\ DueByRule(node, now)
             /\ ~DueByRule(node, viewNow)

\* The filtered logs that have no subject, or an empty one, and a topic that is
\* no title of the index
WithoutSubject(map) ==
    SelectSeq(filteredLogs,
              LAMBDA log : SubjectOf(log) = <<>> /\ MapGet(map, TopicOf(log)) = NULL)

\* C30: with a paper list, a log whose subject is absent or empty and whose
\* topic is no title of the index is counted with the first paper of the list
\* and never with 'other'; only logs with a non-empty subject are counted with
\* 'other'.
C30_EmptySubjectFirstPaper ==
    LET papers == Papers
        map == MapNow
        given == WithoutSubject(map)
    IN Len(papers) > 0 =>
          /\ \A i \in 1..Len(given) : BucketOf(given[i], papers, map) = papers[1].id
          /\ PaperData(given, papers, map)
               = [k \in {papers[i].id : i \in 1..Len(papers)} \cup {"other"} |->
                     IF k = papers[1].id THEN totalHours(given) ELSE 0]
          /\ \A i \in 1..Len(filteredLogs) :
                BucketOf(filteredLogs[i], papers, map) = "other"
                    => SubjectOf(filteredLogs[i]) # <<>>

\* Two papers, and among the filtered logs one with time and no subject, one
\* with time and an empty subject, and one counted with 'other'
C30_Witness ==
    /\ Len(Papers) = 2
    /\ \E i, j, k \in 1..Len(filteredLogs) :
          /\ "subject" \notin DOMAIN filteredLogs[i]
          /\ MinutesOf(filteredLogs[i]) > 0
          /\ "subject" \in DOMAIN filteredLogs[j]
          /\ filteredLogs[j].subject = <<>>
          /\ MapGet(MapNow, TopicOf(filteredLogs[j])) = NULL
          /\ BucketOf(filteredLogs[k], Papers, MapNow) = "other"
    /\ PaperData(filteredLogs, Papers, MapNow)[Papers[1].id] = 40

====
